---- MODULE Spec2Model ----
(***************************************************************************)
(* The statically allocated limit order book of                            *)
(* esl/economics/markets/order_book/book.hpp: the price ladder limits_,    *)
(* the block pool pool_, the two best-quote cursors and the report vector, *)
(* with insert, match_at_level, cancel, bid and ask translated from the    *)
(* code.                                                                   *)
(*                                                                         *)
(* Quotes are integers counted in ticks, so that the ladder has one level  *)
(* for every quote of the valid interval ("One entry per tick").  Pointers *)
(* into the pool are slot numbers 1..max_orders_ with nullptr = 0;         *)
(* pointers into limits_ are indices, which may leave 0..size-1 as the     *)
(* C++ pointers may.                                                       *)
(***************************************************************************)
EXTENDS Integers, Sequences, FiniteSets, TLC

\* ------------------------------------------------------------------ bounds
Span        == 3    \* (upper - lower) in ticks
max_orders_ == 2    \* capacity of the pool (template parameter of book)
MaxQty      == 2    \* largest order quantity submitted
NumOwners   == 1    \* identities that submit orders
MinQuote    == 1    \* valid_limits.lower, in ticks
MaxCancels  == 1    \* cancel calls in one run
MaxBacklog  == 1    \* reports left in the vector when a caller calls again
MaxMethods  == 3    \* longest list of solution methods configured
MaxQuotes   == 2    \* most properties quoted in the excess demand model
MaxSample   == 1    \* largest sample argument of a parametrization
MaxVerbosity == 1   \* largest small verbosity argument of a parametrization
MaxThreads  == 2    \* largest threads argument of a parametrization

\* --------------------------------------------------------------- constants
nullptr     == 0
no_handle   == -1   \* std::numeric_limits<std::uint64_t>::max()
unset_limit == 0    \* value-initialised quote of a cancel() report
unset_side  == "unset"
no_owner    == 0

Slots     == 1..max_orders_
Owners    == 1..NumOwners
Sides     == {"buy", "sell"}
Lifetimes == {"good_until_cancelled", "immediate_or_cancel", "fill_or_kill"}

VARIABLES
    valid_limits,\* the interval of valid limit prices: [lower, upper]
    limits_,     \* level -> [first, second]: head and tail of the level's queue
    pool_,       \* slot -> [quantity, owner, successor, used]
    free_,       \* the pool's list of free slots, next to hand out first
    best_bid_,   \* index into limits_ (pointer)
    best_ask_,   \* index into limits_ (pointer)
    reports,     \* the report vector
    call,        \* the last call, until the caller has looked at its reports
    outcome,     \* how the last call ended
    placed,      \* slot -> what the placement report of its order said, and the
                 \* sum of the match reports that carry its handle since
    cancels,     \* number of cancel calls so far
    methods,     \* excess_demand_model::methods, the solution methods in their order
    quotes,      \* quotes.size() of the excess demand model
    gsl_error_handler, \* the error handler installed in the GSL (process-wide)
    clearing,    \* the last call of compute_clearing_quotes and how it ended
    arguments,   \* the arguments the parametrization was constructed with
    values,      \* parametrization::values: name -> parameter
    got          \* the last call of parametrization::get and how it ended

\* the state of the excess demand model, and of the parametrization
walras_vars == << methods, quotes, gsl_error_handler, clearing >>
parametrization_vars == << arguments, values, got >>

vars == << valid_limits, limits_, pool_, free_, best_bid_, best_ask_, reports, call, outcome, placed, cancels
         , methods, quotes, gsl_error_handler, clearing, arguments, values, got >>

NoCall == [op |-> "none"]

\* valid_limits.lower, valid_limits.upper
lower == valid_limits.lower
upper == valid_limits.upper

\* limits_.size(): span_ of the constructor, (maximum - minimum) ticks, + 1
\* for the maximum
ladder_size == Span + 1
Levels == 0..(ladder_size - 1)

\* the order messages a caller may submit (limit_order_message)
Orders ==
    [ side     : Sides
    , quantity : 0..MaxQty
    , limit    : (lower - 1)..(upper + 1)
    , lifetime : Lifetimes
    , owner    : Owners ]


\* ------------------------------------------------------------------- codec
\* contains with the test against the upper bound forgotten
contains_no_upper(q) == lower <= q

\* valid_limits.contains(q): the closed interval
contains(q) == lower <= q /\ q <= upper

\* the return value of default_encode: false for a quote outside the interval
encode_success(q) == ~(lower > q \/ upper < q)

\* default_encode: (q - lower) / (upper - lower) * limits_.size(), truncated.
\* Only called for lower <= q <= upper.
default_encode(q) == ((q - lower) * ladder_size) \div (upper - lower)

\* default_decode: limit * (upper - lower) / (limits_.size() - 1) + lower
default_decode(l) == ((l * (upper - lower)) \div (ladder_size - 1)) + lower

\* -------------------------------------------------------------------- pool
\* pool_.emplace(record): the record is stored in the free slot s, the first
\* of the free list
emplace(pool, s, quantity, owner) ==
    [pool EXCEPT ![s] = [ quantity |-> quantity, owner |-> owner
                        , successor |-> nullptr, used |-> TRUE ]]

\* pool_.erase(index): the slot is free again and heads the free list; its
\* bytes stay
erase(pool, s) == [pool EXCEPT ![s].used = FALSE]

\* the free list after erase(s): s heads it; a slot that is free already is
\* taken not to be listed a second time
released(pool, free, s) == IF pool[s].used THEN << s >> \o free ELSE free

\* ------------------------------------------------------------ bid() / ask()
\* best_bid_->first, read through the pointer; outside the vector the read
\* yields whatever lies there, `garbage`.
level_first(limits, p, garbage) ==
    IF p \in Levels THEN limits[p].first /= nullptr ELSE garbage

bid_has_value(limits, bb, garbage) == level_first(limits, bb, garbage)
ask_has_value(limits, ba, garbage) == level_first(limits, ba, garbage)

\* ------------------------------------------------------------------ reports
report(state, quantity, identifier, side, limit, owner) ==
    [ state |-> state, quantity |-> quantity, identifier |-> identifier
    , side |-> side, limit |-> limit, owner |-> owner ]

opposite(side) == IF side = "sell" THEN "buy" ELSE "sell"

\* ---------------------------------------------------------- match_at_level
\* for(++best_ask_; best_ask_ <= &limits_.back(); ++best_ask_)
\*     if(best_ask_->first || best_ask_ == &limits_.back()) break;
RECURSIVE next_ask(_, _)
next_ask(limits, p) ==
    IF p > ladder_size - 1 THEN p
    ELSE IF limits[p].first /= nullptr \/ p = ladder_size - 1 THEN p
    ELSE next_ask(limits, p + 1)

\* for(--best_bid_; best_bid_ >= &limits_[0]; --best_bid_)
\*     if(best_bid_->first || best_bid_ == &limits_[0]) break;
RECURSIVE next_bid(_, _)
next_bid(limits, p) ==
    IF p < 0 THEN p
    ELSE IF limits[p].first /= nullptr \/ p = 0 THEN p
    ELSE next_bid(limits, p - 1)

\* the emptied level keeping its tail pointer
level_depleted_keeps_tail(order, m, level) ==
    LET limits1 == [m.limits EXCEPT ![level].first = nullptr]
    IN  IF order.side = "buy"
        THEN [m EXCEPT !.limits = limits1, !.ba = next_ask(limits1, m.ba + 1)]
        ELSE [m EXCEPT !.limits = limits1, !.bb = next_bid(limits1, m.bb - 1)]

\* the level is emptied entirely: reset its pointers, move the cursor
level_depleted(order, m, level) ==
    LET limits1 == [m.limits EXCEPT ![level] = [first |-> nullptr, second |-> nullptr]]
    IN  IF order.side = "buy"
        THEN [m EXCEPT !.limits = limits1, !.ba = next_ask(limits1, m.ba + 1)]
        ELSE [m EXCEPT !.limits = limits1, !.bb = next_bid(limits1, m.bb - 1)]

\* the quantity executed against the resting order ao
execution_size(quantity, remainder_) ==
    IF quantity > remainder_ THEN remainder_ ELSE quantity

\* the head of the level moved on after a partial fill as well
advance_head_always(limits, level, successor, exhausted) ==
    [limits EXCEPT ![level].first = successor]

\* level->first = ao->data.successor, in the branch that takes the whole of
\* the resting order
advance_head(limits, level, successor, exhausted) ==
    IF exhausted THEN [limits EXCEPT ![level].first = successor] ELSE limits

\* the supplier's report carrying the aggressor's side
match_reports_same_side(order, ao, owner, execution_size_, quote_) ==
    << report("match", execution_size_, no_handle, order.side, quote_, order.owner)
     , report("match", execution_size_, ao, order.side, quote_, owner) >>

\* the two reports with the handle on the aggressor's
match_reports_handle_on_aggressor(order, ao, owner, execution_size_, quote_) ==
    << report("match", execution_size_, ao, order.side, quote_, order.owner)
     , report("match", execution_size_, no_handle, opposite(order.side), quote_, owner) >>

\* the execution report for the aggressor, then the one for the supplier
match_reports(order, ao, owner, execution_size_, quote_) ==
    << report("match", execution_size_, no_handle, order.side, quote_, order.owner)
     , report("match", execution_size_, ao, opposite(order.side), quote_, owner) >>

\* One pass of the for loop over the queue of `level`, from the record ao.
\* m is the state of the book while insert runs.  The loop has no bound of
\* its own: `fuel` iterations without leaving it can only happen on a cyclic
\* queue whose quantities are all 0, where the loop never ends.
RECURSIVE match_loop(_, _, _, _, _)
match_loop(order, m, level, ao, fuel) ==
    IF ~(0 < m.remainder) THEN m
    ELSE IF fuel = 0 THEN [m EXCEPT !.diverged = TRUE]
    ELSE
    LET rec             == m.pool[ao]
        execution_size_ == execution_size(rec.quantity, m.remainder)
        exhausted       == ~(rec.quantity > m.remainder)
        pool1   == [m.pool EXCEPT ![ao].quantity = IF exhausted THEN 0 ELSE @ - execution_size_]
        limits1 == advance_head(m.limits, level, rec.successor, exhausted)
        quote_  == default_decode(level)
        m1 == [m EXCEPT
                 !.pool      = pool1,
                 !.limits    = limits1,
                 !.remainder = @ - execution_size_,
                 !.placed    = [@ EXCEPT ![ao].filled = @ + execution_size_],
                 !.reports   = @ \o match_reports(order, ao, rec.owner, execution_size_, quote_)]
    IN  IF rec.successor = nullptr
        THEN IF pool1[ao].quantity = 0 THEN level_depleted(order, m1, level) ELSE m1
        ELSE match_loop(order, m1, level, rec.successor, fuel - 1)

match_at_level(order, m, level) ==
    match_loop(order, m, level, m.limits[level].first, 2 * max_orders_ + 1)

\* ------------------------------------------------------------------ insert
\* for(auto al = best_ask_; al <= limit_level_ && 0 < remainder_; ++al)
RECURSIVE buyer_aggressor(_, _, _, _)
buyer_aggressor(order, m, al, limit_level_) ==
    IF ~(al <= limit_level_ /\ 0 < m.remainder) \/ m.diverged THEN m
    ELSE IF m.limits[al].first = nullptr
         THEN buyer_aggressor(order, m, al + 1, limit_level_)
         ELSE buyer_aggressor(order, match_at_level(order, m, al), al + 1, limit_level_)

\* the seller's loop running down the whole ladder, whatever the limit
RECURSIVE seller_aggressor_unbounded(_, _, _, _)
seller_aggressor_unbounded(order, m, bl, limit_level_) ==
    IF ~(bl >= 0 /\ 0 < m.remainder) \/ m.diverged THEN m
    ELSE IF m.limits[bl].first = nullptr
         THEN seller_aggressor_unbounded(order, m, bl - 1, limit_level_)
         ELSE seller_aggressor_unbounded(order, match_at_level(order, m, bl), bl - 1, limit_level_)

\* for(auto bl = best_bid_; bl >= limit_level_ && 0 < remainder_; --bl)
RECURSIVE seller_aggressor(_, _, _, _)
seller_aggressor(order, m, bl, limit_level_) ==
    IF ~(bl >= limit_level_ /\ 0 < m.remainder) \/ m.diverged THEN m
    ELSE IF m.limits[bl].first = nullptr
         THEN seller_aggressor(order, m, bl - 1, limit_level_)
         ELSE seller_aggressor(order, match_at_level(order, m, bl), bl - 1, limit_level_)

\* the branch of insert's if / else if chain that the order takes
buy_crosses(order, limits, ba, garbage) ==
    /\ order.side = "buy"
    /\ ask_has_value(limits, ba, garbage)
    /\ order.limit >= default_decode(ba)

sell_crosses(order, limits, bb, garbage) ==
    /\ order.side = "sell"
    /\ bid_has_value(limits, bb, garbage)

\* does this lifetime cancel the remainder that matching leaves
cancels_remainder(lifetime) == lifetime = "immediate_or_cancel"

\* the new record linked at the head of its level instead of the tail
push_on_level(limits, pool, level, block_) ==
    IF limits[level].first = nullptr
    THEN [ limits |-> [limits EXCEPT ![level] = [first |-> block_, second |-> block_]]
         , pool   |-> pool ]
    ELSE [ limits |-> [limits EXCEPT ![level].first = block_]
         , pool   |-> [pool EXCEPT ![block_].successor = limits[level].first] ]

\* linking the new record at the tail of its level
append_to_level(limits, pool, level, block_) ==
    IF limits[level].first = nullptr
    THEN [ limits |-> [limits EXCEPT ![level] = [first |-> block_, second |-> block_]]
         , pool   |-> pool ]
    ELSE [ limits |-> [limits EXCEPT ![level].second = block_]
         , pool   |-> [pool EXCEPT ![limits[level].second].successor = block_] ]

\* the cursor assigned the level of the placement instead of the maximum
max_takes_level(a, b) == b

Max(a, b) == IF a >= b THEN a ELSE b
Min(a, b) == IF a <= b THEN a ELSE b

\* the number of the next placement report: placements are numbered from 1
next_seq(p) == 1 + (CHOOSE n \in { p[s].seq : s \in Slots } :
                       \A s \in Slots : p[s].seq <= n)

\* the placement with a full pool answered by an ordinary cancel report
place_cancels_when_full(order, m, limit_level_) ==
    IF m.free = << >>
    THEN [m EXCEPT !.outcome = "returned",
             !.reports = @ \o << report("cancel", m.remainder, no_handle,
                                        order.side, order.limit, order.owner) >>]
    ELSE
    LET slot   == Head(m.free)
        pool1  == emplace(m.pool, slot, m.remainder, order.owner)
        linked == append_to_level(m.limits, pool1, limit_level_, slot)
    IN  [m EXCEPT
           !.outcome = "returned",
           !.pool    = linked.pool,
           !.free    = Tail(@),
           !.limits  = linked.limits,
           !.reports = @ \o << report("placement", m.remainder, slot,
                                      order.side, order.limit, order.owner) >>,
           !.bb      = IF order.side = "buy"  THEN Max(@, limit_level_) ELSE @,
           !.ba      = IF order.side = "sell" THEN Min(@, limit_level_) ELSE @,
           !.placed  = [@ EXCEPT ![slot] = [ side |-> order.side, limit |-> order.limit
                                           , quantity |-> m.remainder
                                           , owner |-> order.owner, filled |-> 0
                                           , seq |-> next_seq(m.placed) ]]]

\* placement of remainder_: pool_.emplace, the placement report, the link into
\* the level and the cursor.  emplace on a full pool is the allocator's
\* capacity-exhausted error, which insert does not catch: it leaves insert
\* there.
place(order, m, limit_level_) ==
    IF m.free = << >> THEN [m EXCEPT !.outcome = "capacity_exhausted"]
    ELSE
    LET slot   == Head(m.free)
        pool1  == emplace(m.pool, slot, m.remainder, order.owner)
        linked == append_to_level(m.limits, pool1, limit_level_, slot)
    IN  [m EXCEPT
           !.outcome = "returned",
           !.pool    = linked.pool,
           !.free    = Tail(@),
           !.limits  = linked.limits,
           !.reports = @ \o << report("placement", m.remainder, slot,
                                      order.side, order.limit, order.owner) >>,
           !.bb      = IF order.side = "buy"  THEN Max(@, limit_level_) ELSE @,
           !.ba      = IF order.side = "sell" THEN Min(@, limit_level_) ELSE @,
           !.placed  = [@ EXCEPT ![slot] = [ side |-> order.side, limit |-> order.limit
                                           , quantity |-> m.remainder
                                           , owner |-> order.owner, filled |-> 0
                                           , seq |-> next_seq(m.placed) ]]]

\* The whole of insert, from the state m0 = the book before the call.
\* `garbage` is what a read through an out-of-range cursor finds.
\* The result carries `outcome`:
\*   "returned"            insert returned
\*   "assert_failed"       the assert on the encoded limit aborted the program
\*   "diverged"            match_at_level never left its loop
\*   "capacity_exhausted"  pool_.emplace had no free slot
insert(order, m0, garbage) ==
    IF ~contains(order.limit) \/ 0 >= order.quantity
    THEN [m0 EXCEPT !.outcome = "returned",
             !.reports = @ \o << report("invalid", order.quantity, no_handle,
                                        order.side, order.limit, order.owner) >>]
    ELSE
    LET limit_index_ == default_encode(order.limit)
    IN
    IF ~(limit_index_ >= 0 /\ ladder_size > limit_index_)
    THEN [m0 EXCEPT !.outcome = "assert_failed"]
    ELSE
    LET limit_level_ == limit_index_
        start == [m0 EXCEPT !.remainder = order.quantity]
        buys  == buy_crosses(order, m0.limits, m0.ba, garbage)
        sells == ~buys /\ sell_crosses(order, m0.limits, m0.bb, garbage)
        m == IF buys       THEN buyer_aggressor(order, start, m0.ba, limit_level_)
             ELSE IF sells THEN seller_aggressor(order, start, m0.bb, limit_level_)
             ELSE start
    IN
    IF m.diverged THEN [m EXCEPT !.outcome = "diverged"]
    ELSE IF ~buys /\ ~sells
            /\ order.lifetime \in {"immediate_or_cancel", "fill_or_kill"}
    THEN [m EXCEPT !.outcome = "returned",
             !.reports = @ \o << report("cancel", order.quantity, no_handle,
                                        order.side, order.limit, order.owner) >>]
    ELSE IF 0 >= m.remainder THEN [m EXCEPT !.outcome = "returned"]
    ELSE IF cancels_remainder(order.lifetime)
    THEN [m EXCEPT !.outcome = "returned",
             !.reports = @ \o << report("cancel", m.remainder, no_handle,
                                        order.side, order.limit, order.owner) >>]
    ELSE place(order, m, limit_level_)

\* ------------------------------------------------------------------ cancel
\* cancel assigning its report to the vector instead of appending it
cancel_clears_reports(order, m0) ==
    LET order_ == m0.pool[order]
    IN  [m0 EXCEPT
           !.outcome = "returned",
           !.reports = << report("cancel", order_.quantity, order,
                                 unset_side, unset_limit, order_.owner) >>,
           !.pool    = erase(@, order),
           !.free    = released(m0.pool, @, order)]

\* cancel reporting the quantity the order was placed with
cancel_placed_quantity(order, m0) ==
    LET order_ == m0.pool[order]
    IN  [m0 EXCEPT
           !.outcome = "returned",
           !.reports = @ \o << report("cancel", m0.placed[order].quantity, order,
                                      unset_side, unset_limit, order_.owner) >>,
           !.pool    = erase(@, order),
           !.free    = << order >> \o @]

cancel(order, m0) ==
    LET order_ == m0.pool[order]
    IN  [m0 EXCEPT
           !.outcome = "returned",
           !.reports = @ \o << report("cancel", order_.quantity, order,
                                      unset_side, unset_limit, order_.owner) >>,
           !.pool    = erase(@, order),
           !.free    = released(m0.pool, @, order)]

\* ------------------------------------------------------------------ resize
\* resize with the throw left out: the body below it runs to its last line
resize_assigns(new_limits, m0) ==
    [m0 EXCEPT !.outcome = "returned", !.valid_limits = new_limits]

\* resize: throw std::logic_error("Not implemented") is its first statement
resize(new_limits, m0) == [m0 EXCEPT !.outcome = "not_implemented"]

\* ------------------------------------- excess_demand_model (tatonnement.cpp)
\* enum solver: a method other than root takes the minimizer's branch
Solvers == {"root", "minimization"}

\* what the iteration of a GSL solver ends with
Statuses == {"GSL_SUCCESS", "GSL_CONTINUE"}

\* the error handlers: the library's own, one the caller installed, and the
\* empty `handler` of tatonnement.cpp
Handlers == {"gsl_default", "caller", "handler"}

\* no call of compute_clearing_quotes yet
NoClearing == [outcome |-> "none", by |-> 0, tried |-> << >>, old_handler |-> "gsl_default"]

\* if (method_ == root) ... if (1 == quotes.size()): the univariate solver
univariate_root(method_, n) == method_ = "root" /\ n = 1

\* auto old_handler = gsl_set_error_handler(&handler), made for the
\* univariate root solver only
install_handler(univariate, current) == IF univariate THEN "handler" ELSE current

\* gsl_set_error_handler(old_handler), after the univariate solver has not
\* converged
reset_handler(univariate, old_handler, current) ==
    IF univariate THEN old_handler ELSE current

\* the loop giving up after a method that has not converged
give_up(ms, i) == Len(ms) + 1

\* the loop goes on with the method that follows
next_method(ms, i) == i + 1

\* for (auto method_ : methods), from the method at position i.  status[i]
\* is what the solver of that method ends with.
RECURSIVE try_methods(_, _, _, _, _)
try_methods(ms, n, i, m, status) ==
    IF i > Len(ms) THEN [m EXCEPT !.outcome = "nullopt"]
    ELSE
    LET method_     == ms[i]
        univariate  == univariate_root(method_, n)
        old_handler == m.handler
        m1 == [m EXCEPT !.tried   = Append(@, [method |-> method_, status |-> status[i]]),
                        !.handler = install_handler(univariate, @)]
    IN  IF status[i] = "GSL_SUCCESS"
        THEN \* return result_
             [m1 EXCEPT !.outcome = "quotes", !.by = i]
        ELSE try_methods(ms, n, next_method(ms, i),
                         [m1 EXCEPT !.handler = reset_handler(univariate, old_handler, @)],
                         status)

\* compute_clearing_quotes(max_iterations)
compute_clearing_quotes(ms, n, current, status) ==
    LET m0 == [outcome |-> "none", by |-> 0, tried |-> << >>, handler |-> current]
    IN  IF ms = << >>
        THEN [m0 EXCEPT !.outcome = "invalid_parameters"]
        ELSE try_methods(ms, n, 1, m0, status)

\* ------------------------------------------- parametrization (output_base.cpp)
\* unsigned int holds values modulo 2^32 and std::uint64_t values beyond it;
\* the modulus is scaled down to 2^16, TLC's integers ending at 2^31 - 1
UInt32 == 65536

Names == {"sample", "start", "end", "verbosity", "threads", "seed"}
Types == {"uint64_t", "time_point", "unsigned int"}

\* std::make_shared<constant<parameter_t_>>(choice)
constant(type, choice) == [type |-> type, choice |-> choice]

\* values.find(name) == values.end()
absent == [type |-> "none", choice |-> 0]

\* parametrization(sample, start, end, verbosity, threads): the map the
\* constructor fills
parametrization(sample, start, end, verbosity, threads) ==
    [name \in Names |->
        CASE name = "sample"    -> constant("uint64_t", sample)
          [] name = "start"     -> constant("time_point", start)
          [] name = "end"       -> constant("time_point", end)
          [] name = "verbosity" -> constant("uint64_t", verbosity)
          [] name = "threads"   -> constant("unsigned int", verbosity % UInt32)
          [] OTHER              -> absent]

\* get<parameter_t_>(name)
get(vals, name, type) ==
    IF vals[name] = absent THEN [outcome |-> "out_of_range", choice |-> 0]
    ELSE IF vals[name].type /= type THEN [outcome |-> "out_of_range", choice |-> 0]
    ELSE [outcome |-> "returned", choice |-> vals[name].choice]

\* the defaults of the constructor's arguments (verbosity outside ESL_RELEASE)
DefaultArguments == [sample |-> 0, start |-> 0, end |-> 1, verbosity |-> 1, threads |-> 1]

NoGet == [name |-> "none", type |-> "none", outcome |-> "none", choice |-> 0]

\* ------------------------------------------------------------ state machine
Book == [ valid_limits |-> valid_limits, limits |-> limits_, pool |-> pool_, free |-> free_, bb |-> best_bid_, ba |-> best_ask_
        , reports |-> reports, remainder |-> 0, diverged |-> FALSE
        , outcome |-> "none", placed |-> placed ]

Install(m) ==
    /\ valid_limits' = m.valid_limits
    /\ limits_'   = m.limits
    /\ pool_'     = m.pool
    /\ free_'     = m.free
    /\ best_bid_' = m.bb
    /\ best_ask_' = m.ba
    /\ reports'   = m.reports
    /\ outcome'   = m.outcome
    /\ placed'    = m.placed
    /\ UNCHANGED << walras_vars, parametrization_vars >>

Alive == outcome \notin {"assert_failed", "diverged"}

InitBook ==
    /\ valid_limits = [lower |-> MinQuote, upper |-> MinQuote + Span]
    /\ limits_   = [l \in Levels |-> [first |-> nullptr, second |-> nullptr]]
    /\ pool_     = [s \in Slots |-> [ quantity |-> 0, owner |-> no_owner
                                    , successor |-> nullptr, used |-> FALSE ]]
    /\ free_     = [i \in 1..max_orders_ |-> i]
    /\ best_bid_ = 0
    /\ best_ask_ = ladder_size - 1
    /\ reports   = << >>
    /\ call      = NoCall
    /\ outcome   = "none"
    /\ placed    = [s \in Slots |-> [ side |-> unset_side, limit |-> unset_limit
                                    , quantity |-> 0, owner |-> no_owner, filled |-> 0
                                    , seq |-> 0 ]]
    /\ cancels   = 0

\* an excess demand model with no method configured and nothing computed
InitIdleModel ==
    /\ methods  = << >>
    /\ quotes   = 1
    /\ gsl_error_handler = "gsl_default"
    /\ clearing = NoClearing

\* a parametrization constructed with the defaults
InitDefaultParametrization ==
    /\ arguments = DefaultArguments
    /\ values = parametrization(DefaultArguments.sample, DefaultArguments.start,
                                DefaultArguments.end, DefaultArguments.verbosity,
                                DefaultArguments.threads)
    /\ got = NoGet

Init == InitBook /\ InitIdleModel /\ InitDefaultParametrization

\* the reads insert makes through a cursor that has left the vector
Garbage(order) ==
    IF \/ (order.side = "buy"  /\ best_ask_ \notin Levels)
       \/ (order.side = "sell" /\ best_bid_ \notin Levels)
    THEN BOOLEAN ELSE {FALSE}

Insert ==
    /\ Alive
    /\ call = NoCall
    /\ \E order \in Orders :
         \E garbage \in Garbage(order) :
           /\ Install(insert(order, Book, garbage))
           /\ call' = [op |-> "insert", order |-> order]
           /\ UNCHANGED cancels

Cancel ==
    /\ Alive
    /\ call = NoCall
    /\ cancels < MaxCancels
    /\ cancels' = cancels + 1
    /\ \E order \in Slots :
         /\ pool_[order].used
         /\ Install(cancel(order, Book))
         /\ call' = [op |-> "cancel", handle |-> order]

\* cancel called with a handle whose slot is free
CancelFreed ==
    /\ Alive
    /\ call = NoCall
    /\ \E order \in Slots :
         /\ ~pool_[order].used
         /\ Install(cancel(order, Book))
         /\ call' = [op |-> "cancel", handle |-> order]
    /\ UNCHANGED cancels

\* the caller takes the reports of the call out of the vector
Drain ==
    /\ Alive
    /\ call /= NoCall
    /\ reports' = << >>
    /\ call'    = NoCall
    /\ UNCHANGED << valid_limits, limits_, pool_, free_, best_bid_, best_ask_, outcome, placed, cancels >>
    /\ UNCHANGED << walras_vars, parametrization_vars >>

Next == Insert \/ Cancel \/ Drain

Spec == Init /\ [][Next]_vars

NextInsert == Insert \/ Drain

SpecInsert == Init /\ [][NextInsert]_vars

\* the intervals a caller may ask resize for
Intervals ==
    { [lower |-> lo, upper |-> hi] :
        lo \in (MinQuote - 1)..(MinQuote + 1), hi \in (MinQuote + Span - 1)..(MinQuote + Span + 1) }

Resize ==
    /\ Alive
    /\ call = NoCall
    /\ \E new_limits \in Intervals :
         /\ Install(resize(new_limits, Book))
         /\ call' = [op |-> "resize", new_limits |-> new_limits]
    /\ UNCHANGED cancels

NextResize == Insert \/ Cancel \/ Resize \/ Drain

SpecResize == Init /\ [][NextResize]_vars

\* A caller that reads the vector only after several calls, as the README's
\* example does: it calls again while reports of earlier calls are in the
\* vector.  Its orders are the valid good-until-cancelled ones.
KeptOrders ==
    { order \in Orders : /\ order.lifetime = "good_until_cancelled"
                         /\ order.quantity > 0
                         /\ lower <= order.limit /\ order.limit <= upper }

InsertKept ==
    /\ Alive
    /\ Len(reports) <= MaxBacklog
    /\ \E order \in KeptOrders :
         \E garbage \in Garbage(order) :
           /\ Install(insert(order, Book, garbage))
           /\ call' = [op |-> "insert", order |-> order]
           /\ UNCHANGED cancels

CancelKept ==
    /\ Alive
    /\ Len(reports) <= MaxBacklog
    /\ cancels < MaxCancels
    /\ cancels' = cancels + 1
    /\ \E order \in Slots :
         /\ pool_[order].used
         /\ Install(cancel(order, Book))
         /\ call' = [op |-> "cancel", handle |-> order]

NextKept == InsertKept \/ CancelKept \/ Drain

SpecKept == Init /\ [][NextKept]_vars

\* callers that also cancel handles they hold no order for
NextAnyHandle == Insert \/ Cancel \/ CancelFreed \/ Drain

SpecAnyHandle == Init /\ [][NextAnyHandle]_vars

\* ------------------------------------------- the excess demand model's calls
\* the lists of methods a model is configured with
RECURSIVE MethodLists(_)
MethodLists(n) ==
    IF n = 0 THEN { << >> }
    ELSE MethodLists(n - 1)
           \cup { Append(ms, s) : ms \in { l \in MethodLists(n - 1) : Len(l) = n - 1 }, s \in Solvers }

InitWalras ==
    /\ InitBook
    /\ InitDefaultParametrization
    /\ methods \in MethodLists(MaxMethods)
    /\ quotes \in 1..MaxQuotes
    /\ gsl_error_handler \in {"gsl_default", "caller"}
    /\ clearing = NoClearing

ComputeClearingQuotes ==
    /\ \E status \in [1..Len(methods) -> Statuses] :
         LET m == compute_clearing_quotes(methods, quotes, gsl_error_handler, status)
         IN  /\ clearing' = [ outcome |-> m.outcome, by |-> m.by, tried |-> m.tried
                            , old_handler |-> gsl_error_handler ]
             /\ gsl_error_handler' = m.handler
    /\ UNCHANGED << methods, quotes >>
    /\ UNCHANGED << valid_limits, limits_, pool_, free_, best_bid_, best_ask_, reports, call, outcome, placed, cancels >>
    /\ UNCHANGED parametrization_vars

NextWalras == ComputeClearingQuotes

SpecWalras == InitWalras /\ [][NextWalras]_vars

\* ----------------------------------------------- the parametrization's calls
\* the arguments a parametrization is constructed with
Arguments ==
    { [sample |-> sample, start |-> 0, end |-> 1, verbosity |-> verbosity, threads |-> threads] :
        sample \in 0..MaxSample, verbosity \in (0..MaxVerbosity) \cup {UInt32 + 1},
        threads \in 1..MaxThreads }

InitParametrization ==
    /\ InitBook
    /\ InitIdleModel
    /\ arguments \in Arguments
    /\ values = parametrization(arguments.sample, arguments.start, arguments.end,
                                arguments.verbosity, arguments.threads)
    /\ got = NoGet

Get ==
    /\ \E name \in Names : \E type \in Types :
         LET r == get(values, name, type)
         IN  got' = [name |-> name, type |-> type, outcome |-> r.outcome, choice |-> r.choice]
    /\ UNCHANGED << arguments, values >>
    /\ UNCHANGED << valid_limits, limits_, pool_, free_, best_bid_, best_ask_, reports, call, outcome, placed, cancels >>
    /\ UNCHANGED walras_vars

NextParametrization == Get

SpecParametrization == InitParametrization /\ [][NextParametrization]_vars

\* ----------------------------------------------------- views of the state
\* what a read through the cursor p may find: outside the vector, anything
GarbageAt(p) == IF p \in Levels THEN {FALSE} ELSE BOOLEAN

\* std::optional<quote> bid() / ask(): the set of the quote returned, if any
bid(garbage) ==
    IF bid_has_value(limits_, best_bid_, garbage) THEN {default_decode(best_bid_)} ELSE {}
ask(garbage) ==
    IF ask_has_value(limits_, best_ask_, garbage) THEN {default_decode(best_ask_)} ELSE {}

RECURSIVE SumOver(_, _)
SumOver(f, S) ==
    IF S = {} THEN 0
    ELSE LET x == CHOOSE y \in S : TRUE IN f[x] + SumOver(f, S \ {x})

\* sum of the remaining quantities of the orders that rest: the records of
\* the pool that are in use
RestingQuantity ==
    SumOver([s \in Slots |-> IF pool_[s].used THEN pool_[s].quantity ELSE 0], Slots)

\* sum of the quantities of the match, cancel and invalid reports in rs
ReportedQuantity(rs) ==
    SumOver([i \in DOMAIN rs |->
                IF rs[i].state \in {"match", "cancel", "invalid"} THEN rs[i].quantity ELSE 0],
            DOMAIN rs)

\* the orders that rest, by side, from their placement reports
Resting(side) ==
    { s \in Slots : pool_[s].used /\ pool_[s].quantity > 0 /\ placed[s].side = side }

IsInsert == call.op = "insert"
Returned == outcome = "returned"

\* a call happens in this step (the caller has drained the reports before it)
CallStep == call = NoCall /\ call' /= NoCall

\* C1: conservation.  Across every call that returns, what the call submits
\* equals the change of the resting quantity plus the quantities of the
\* match, cancel and invalid reports the call emits; so that after any
\* sequence of calls resting + reported = submitted.
C1_Conservation ==
    [][ (CallStep /\ outcome' = "returned")
        => RestingQuantity' + ReportedQuantity(reports')
             = RestingQuantity + (IF call'.op = "insert" THEN call'.order.quantity ELSE 0)
      ]_vars

\* C2: price-time priority.  Of two orders placed at the same level, the one
\* placed later has received a fill only if the one placed earlier has been
\* filled completely.
C2_PriceTimePriority ==
    \A a \in Slots : \A b \in Slots :
        ( /\ pool_[a].used /\ pool_[b].used
          /\ placed[a].limit = placed[b].limit
          /\ placed[a].seq < placed[b].seq
          /\ pool_[b].quantity < placed[b].quantity )
        => pool_[a].quantity = 0

C2_Witness ==
    \E a \in Slots : \E b \in Slots :
        /\ pool_[a].used /\ pool_[b].used
        /\ placed[a].limit = placed[b].limit
        /\ placed[a].seq < placed[b].seq
        /\ pool_[b].quantity < placed[b].quantity
        /\ pool_[b].quantity > 0
        /\ pool_[a].quantity = 0

\* C3: no crossed book.  Whenever bid() and ask() both return a quote,
\* ask() >= bid().
C3_NoCrossedBook ==
    \A gb \in GarbageAt(best_bid_) : \A ga \in GarbageAt(best_ask_) :
        \A b \in bid(gb) : \A a \in ask(ga) : a >= b

C3_Witness ==
    /\ IsInsert /\ Returned
    /\ Resting("buy") /= {} /\ Resting("sell") /= {}
    /\ \E b \in bid(FALSE) : \E a \in ask(FALSE) : a > b

\* C8: an aggressor never trades through its limit.  Every match report of
\* an insert carries a price <= the order's limit for a buy, >= for a sell.
C8_NoTradeThrough ==
    IsInsert =>
        \A i \in DOMAIN reports :
            reports[i].state = "match" =>
                IF call.order.side = "buy"
                THEN reports[i].limit <= call.order.limit
                ELSE reports[i].limit >= call.order.limit

C8_Witness ==
    /\ IsInsert /\ Returned
    /\ call.order.side = "sell"
    /\ \E i \in DOMAIN reports :
          reports[i].state = "match" /\ reports[i].limit > call.order.limit

\* C9: bid() returns a quote iff a buy order rests, and then the highest
\* resting buy price; ask() returns a quote iff a sell order rests, and then
\* the lowest resting sell price.
C9_BestQuotes ==
    /\ \A g \in GarbageAt(best_bid_) :
         /\ (bid(g) /= {}) <=> (Resting("buy") /= {})
         /\ \A b \in bid(g) : \A s \in Resting("buy") : placed[s].limit <= b
         /\ \A b \in bid(g) : \E s \in Resting("buy") : placed[s].limit = b
    /\ \A g \in GarbageAt(best_ask_) :
         /\ (ask(g) /= {}) <=> (Resting("sell") /= {})
         /\ \A a \in ask(g) : \A s \in Resting("sell") : placed[s].limit >= a
         /\ \A a \in ask(g) : \E s \in Resting("sell") : placed[s].limit = a

\* ------------------------------------------------- views of a call's result
Last(rs) == rs[Len(rs)]

\* the order has a positive quantity and a limit within [lower, upper]
Valid(order) == lower <= order.limit /\ order.limit <= upper /\ order.quantity > 0

\* the quantity of the order filled by the call: its aggressor match reports
Filled(rs) ==
    SumOver([i \in DOMAIN rs |->
                IF rs[i].state = "match" /\ rs[i].identifier = no_handle
                THEN rs[i].quantity ELSE 0],
            DOMAIN rs)

HasReport(rs, state) == \E i \in DOMAIN rs : rs[i].state = state

\* an insert of a valid order with this lifetime returns in this step
InsertReturns(lifetime) ==
    /\ CallStep
    /\ call'.op = "insert"
    /\ call'.order.lifetime = lifetime
    /\ Valid(call'.order)
    /\ outcome' = "returned"

\* the insert of this step leaves a remainder
LeavesRemainder == Filled(reports') < call'.order.quantity

BookUnchanged ==
    /\ limits_' = limits_
    /\ pool_' = pool_
    /\ free_' = free_
    /\ best_bid_' = best_bid_
    /\ best_ask_' = best_ask_

\* the resting orders of the other side priced within the order's limit
OppositeWithin(order) ==
    { s \in Resting(opposite(order.side)) :
        IF order.side = "buy" THEN placed[s].limit <= order.limit
                              ELSE placed[s].limit >= order.limit }

\* after an insert: what rests on the other side within the order's limit
LeftWithinLimit == OppositeWithin(call.order)

\* C4: FOK atomicity.  A fill-or-kill insert that cannot be filled in full
\* leaves the ladder, the pool and both cursors as they were and emits no
\* match report.
C4_FOKAtomicity ==
    [][ (InsertReturns("fill_or_kill") /\ LeavesRemainder)
        => (BookUnchanged /\ ~HasReport(reports', "match")) ]_vars

\* C5: a fill-or-kill order never rests.  A fill-or-kill insert that ends
\* with a remainder r > 0 emits a cancel report of r as its last report, no
\* placement report, and allocates no record.
C5_FOKNeverRests ==
    [][ (InsertReturns("fill_or_kill") /\ LeavesRemainder)
        => /\ free_' = free_
           /\ ~HasReport(reports', "placement")
           /\ reports' /= << >>
           /\ Last(reports')
                = report("cancel", call'.order.quantity - Filled(reports'), no_handle,
                         call'.order.side, call'.order.limit, call'.order.owner) ]_vars

\* C6: an immediate-or-cancel order never rests.  Its insert emits no
\* placement report and allocates no record; when a remainder r > 0 is left
\* the last report is a cancel report of r, and no order of the other side
\* priced within the limit is left resting.
C6_IOCNeverRests ==
    [][ InsertReturns("immediate_or_cancel")
        => /\ free_' = free_
           /\ \A s \in Slots : pool_'[s].used = pool_[s].used
           /\ ~HasReport(reports', "placement")
           /\ LeavesRemainder =>
                /\ reports' /= << >>
                /\ Last(reports')
                     = report("cancel", call'.order.quantity - Filled(reports'), no_handle,
                              call'.order.side, call'.order.limit, call'.order.owner)
                /\ LeftWithinLimit' = {}
      ]_vars

\* an immediate-or-cancel insert has filled a part and cancelled the rest
C6_Witness ==
    /\ IsInsert /\ Returned
    /\ call.order.lifetime = "immediate_or_cancel"
    /\ Len(reports) = 3
    /\ reports[1].state = "match"
    /\ reports[3].state = "cancel"
    /\ reports[3].quantity = call.order.quantity - reports[1].quantity
    /\ reports[3].quantity > 0

\* C7: an insert with a quantity that is not positive, or a limit outside
\* the valid interval, emits exactly one invalid report, with the order's
\* quantity, side, limit and owner and no handle, and changes nothing else.
C7_InvalidRejected ==
    [][ (CallStep /\ call'.op = "insert" /\ ~Valid(call'.order))
        => /\ outcome' = "returned"
           /\ reports' = << report("invalid", call'.order.quantity, no_handle,
                                   call'.order.side, call'.order.limit, call'.order.owner) >>
           /\ BookUnchanged ]_vars

\* an order above the interval, and one without quantity, have been rejected
\* by a book that holds an order
C7_Witness ==
    /\ IsInsert /\ Returned
    /\ ~Valid(call.order)
    /\ call.order.limit > upper
    /\ \E s \in Slots : pool_[s].used
    /\ reports = << report("invalid", call.order.quantity, no_handle,
                           call.order.side, call.order.limit, call.order.owner) >>

\* the book as the constructor leaves it
EmptyBook ==
    /\ limits_ = [l \in Levels |-> [first |-> nullptr, second |-> nullptr]]
    /\ free_ = [i \in 1..max_orders_ |-> i]
    /\ \A s \in Slots : ~pool_[s].used
    /\ best_bid_ = 0
    /\ best_ask_ = ladder_size - 1

\* the book after buy q1@p (GTC) has been placed in the empty book
OnlyBuyRests(p, q1) ==
    /\ free_ = Tail([i \in 1..max_orders_ |-> i])
    /\ pool_[1].used /\ pool_[1].quantity = q1 /\ pool_[1].successor = nullptr
    /\ placed[1].side = "buy" /\ placed[1].limit = p /\ placed[1].quantity = q1
    /\ \A s \in Slots \ {1} : ~pool_[s].used
    /\ \A l \in Levels :
         limits_[l] = IF default_decode(l) = p THEN [first |-> 1, second |-> 1]
                      ELSE [first |-> nullptr, second |-> nullptr]
    /\ best_ask_ = ladder_size - 1

\* C10: in the empty book, for every valid price p and 0 < q1 < q2, buy q1@p
\* (GTC) emits one placement report of q1; then sell q2@p (GTC) emits a match
\* of q1 for the seller, a match of q1 for the resting buyer and a placement
\* of q2 - q1, and afterwards bid() returns no quote and ask() returns p.
C10_CrossSmallerResting ==
    [][ /\ ( /\ EmptyBook /\ CallStep /\ call'.op = "insert"
             /\ call'.order.side = "buy"
             /\ call'.order.lifetime = "good_until_cancelled"
             /\ Valid(call'.order) )
          => /\ outcome' = "returned"
             /\ reports' = << report("placement", call'.order.quantity, Head(free_),
                                     "buy", call'.order.limit, call'.order.owner) >>
        /\ \A p \in lower..upper : \A q1 \in 1..MaxQty :
            ( /\ OnlyBuyRests(p, q1) /\ CallStep /\ call'.op = "insert"
              /\ call'.order.side = "sell"
              /\ call'.order.lifetime = "good_until_cancelled"
              /\ call'.order.limit = p
              /\ call'.order.quantity > q1 )
          => /\ outcome' = "returned"
             /\ reports' =
                  << report("match", q1, no_handle, "sell", p, call'.order.owner)
                   , report("match", q1, 1, "buy", p, pool_[1].owner)
                   , report("placement", call'.order.quantity - q1, Head(free_),
                            "sell", p, call'.order.owner) >>
             /\ \A g \in GarbageAt(best_bid_') :
                  ~bid_has_value(limits_', best_bid_', g)
             /\ ask_has_value(limits_', best_ask_', FALSE)
             /\ default_decode(best_ask_') = p
      ]_vars

\* an insert of a valid immediate-or-cancel or fill-or-kill order returns in
\* this step
ImmediateInsertReturns ==
    \/ InsertReturns("immediate_or_cancel")
    \/ InsertReturns("fill_or_kill")

\* C11: no liquidity for IOC/FOK.  An immediate-or-cancel or fill-or-kill
\* insert made while no order of the other side rests within its limit emits
\* exactly one report, a cancel report of the order's full quantity, and
\* leaves the ladder, the pool, the free list and both cursors as they were.
C11_NoLiquidityCancel ==
    [][ (ImmediateInsertReturns /\ OppositeWithin(call'.order) = {})
        => /\ reports' = << report("cancel", call'.order.quantity, no_handle,
                                   call'.order.side, call'.order.limit, call'.order.owner) >>
           /\ BookUnchanged ]_vars

\* a cancel call happens in this step
CancelStep == CallStep /\ call'.op = "cancel"

\* C12: cancel(handle) of an order that holds a slot emits exactly one
\* report, a cancel report whose identifier is the handle, whose owner is
\* the owner of the order's placement report and whose quantity is the
\* quantity of that placement report minus the quantities of the match
\* reports that carried the handle; and the slot is free afterwards.
C12_CancelReport ==
    [][ (CancelStep /\ pool_[call'.handle].used)
        => /\ outcome' = "returned"
           /\ Len(reports') = 1
           /\ reports'[1].state = "cancel"
           /\ reports'[1].identifier = call'.handle
           /\ reports'[1].owner = placed[call'.handle].owner
           /\ reports'[1].quantity
                = placed[call'.handle].quantity - placed[call'.handle].filled
           /\ ~pool_'[call'.handle].used
           /\ Head(free_') = call'.handle ]_vars

\* an order filled in part has been cancelled
C12_Witness ==
    /\ call.op = "cancel" /\ Returned
    /\ Len(reports) = 1
    /\ reports[1].quantity > 0
    /\ reports[1].quantity < placed[call.handle].quantity
    /\ placed[call.handle].filled > 0
    /\ ~pool_[call.handle].used

\* the handle was issued by a placement and its order has been cancelled since
CancelledBefore(h) == placed[h].seq > 0 /\ ~pool_[h].used

\* C13: a second cancel on a handle, with no placement in between that issued
\* the handle again, emits no report and changes no state.
C13_SecondCancelIsError ==
    [][ (CancelStep /\ CancelledBefore(call'.handle))
        => (reports' = reports /\ BookUnchanged) ]_vars

\* the quote lies in the valid interval, both ends included
InInterval(q) == lower <= q /\ q <= upper

\* C14: codec round trip.  For the limit q of every insert that encodes it,
\* q in the valid interval, with t = encode(q): decode(t) is a quote that
\* encode accepts and encode(decode(t)) = t.
C14_CodecRoundTrip ==
    (IsInsert /\ Valid(call.order) /\ InInterval(call.order.limit))
    => LET t == default_encode(call.order.limit)
       IN  /\ encode_success(default_decode(t))
           /\ default_encode(default_decode(t)) = t

\* C15: every accepted price maps to a ladder slot.  For the limit q of every
\* insert: when the order passed the validity check, q in the valid interval,
\* encode succeeds with a tick t, 0 <= t < ladder length, and the assert of
\* insert does not fail; when q is outside the interval encode rejects it.
C15_EncodeWithinLadder ==
    IsInsert =>
        LET q == call.order.limit
        IN  /\ (Valid(call.order) /\ InInterval(q)) =>
                 /\ encode_success(q)
                 /\ 0 <= default_encode(q)
                 /\ default_encode(q) < ladder_size
                 /\ outcome /= "assert_failed"
            /\ ~InInterval(q) => ~encode_success(q)

\* the quantities of the match reports of rs that carry the handle s
MatchedAgainst(rs, s) ==
    SumOver([i \in DOMAIN rs |->
                IF rs[i].state = "match" /\ rs[i].identifier = s
                THEN rs[i].quantity ELSE 0],
            DOMAIN rs)

\* a valid good-until-cancelled insert ends matching with a remainder in this
\* step (and the program goes on)
GTCLeavesRemainder ==
    /\ CallStep
    /\ call'.op = "insert"
    /\ call'.order.lifetime = "good_until_cancelled"
    /\ Valid(call'.order)
    /\ outcome' \in {"returned", "capacity_exhausted"}
    /\ LeavesRemainder

RECURSIVE Matches(_)
Matches(rs) ==
    IF rs = << >> THEN << >>
    ELSE IF Head(rs).state = "match" THEN << Head(rs) >> \o Matches(Tail(rs))
    ELSE Matches(Tail(rs))

\* C17: match reports come in adjacent pairs.  In the reports of a call,
\* a match report without a handle (the aggressor's) is followed at once by a
\* match report with a handle (the resting order's) of the same quantity and
\* price and the opposite side; a match report with a handle follows at once
\* on one without; and the number of match reports is even.
C17_MatchReportsPaired ==
    /\ \A i \in DOMAIN reports :
         (reports[i].state = "match" /\ reports[i].identifier = no_handle)
         => /\ i + 1 \in DOMAIN reports
            /\ reports[i + 1].state = "match"
            /\ reports[i + 1].identifier \in Slots
            /\ reports[i + 1].quantity = reports[i].quantity
            /\ reports[i + 1].limit = reports[i].limit
            /\ reports[i + 1].side = opposite(reports[i].side)
    /\ \A i \in DOMAIN reports :
         (reports[i].state = "match" /\ reports[i].identifier /= no_handle)
         => /\ i - 1 \in DOMAIN reports
            /\ reports[i - 1].state = "match"
            /\ reports[i - 1].identifier = no_handle
    /\ Len(Matches(reports)) % 2 = 0

\* an insert has traded with two resting orders
C17_Witness ==
    /\ IsInsert /\ Returned
    /\ Len(Matches(reports)) = 4
    /\ reports[2].identifier /= reports[4].identifier

\* the queue of a level: the records reached from its head over the
\* successor links, cut after max_orders_ + 1 records
RECURSIVE Chain(_, _, _)
Chain(pool, s, fuel) ==
    IF s = nullptr \/ fuel = 0 THEN << >>
    ELSE << s >> \o Chain(pool, pool[s].successor, fuel - 1)

QueueOf(l) == Chain(pool_, limits_[l].first, max_orders_ + 1)

\* q is what is left of the queue p when records are taken from its head
IsSuffix(q, p) ==
    \E k \in 0..Len(p) : q = SubSeq(p, k + 1, Len(p))

\* C18: placement of a good-until-cancelled remainder.  When a valid GTC
\* insert ends matching with a remainder r > 0 and the pool has a free slot:
\* one slot leaves the free list and holds a new record of quantity r with
\* the order's owner and no successor; the queue of the level
\* encode(order.limit) is what matching left of it followed by the new
\* record, which is its tail; the last report of the call is the only
\* placement report, of quantity r with the slot as handle; and the queue of
\* every other level is what matching left of it, unchanged where the call
\* matched nothing.
C18_PlacementOfRemainder ==
    [][ (GTCLeavesRemainder /\ free_ /= << >>)
        => LET order == call'.order
               r     == order.quantity - Filled(reports')
               slot  == Head(free_)
           IN  /\ outcome' = "returned"
               /\ free_' = Tail(free_)
               /\ pool_'[slot] = [ quantity |-> r, owner |-> order.owner
                                 , successor |-> nullptr, used |-> TRUE ]
               /\ \A s \in Slots \ {slot} : pool_'[s].used = pool_[s].used
               /\ Last(reports') = report("placement", r, slot,
                                          order.side, order.limit, order.owner)
               /\ \A i \in 1..(Len(reports') - 1) : reports'[i].state /= "placement"
               /\ \A l \in Levels :
                    IF l = default_encode(order.limit)
                    THEN /\ limits_'[l].second = slot
                         /\ \E q \in {QueueOf(l)' } :
                              /\ Len(q) >= 1
                              /\ Last(q) = slot
                              /\ IsSuffix(SubSeq(q, 1, Len(q) - 1), QueueOf(l))
                    ELSE /\ IsSuffix(QueueOf(l)', QueueOf(l))
                         /\ (\A i \in DOMAIN reports' :
                                reports'[i].state = "match"
                                => reports'[i].limit /= default_decode(l))
                            => limits_'[l] = limits_[l]
      ]_vars

\* a remainder has been placed behind an order that rests at its level
C18_Witness ==
    /\ IsInsert /\ Returned
    /\ call.order.lifetime = "good_until_cancelled"
    /\ Len(reports) = 1
    /\ reports[1].state = "placement"
    /\ \E l \in Levels : Len(QueueOf(l)) = 2 /\ Last(QueueOf(l)) = reports[1].identifier

\* a call is made in this step (Drain, the caller's, leaves no call behind)
CallMade == call' /= NoCall

\* the reports of the vector before the step are its first reports after it
EarlierReportsKept ==
    /\ Len(reports') >= Len(reports)
    /\ SubSeq(reports', 1, Len(reports)) = reports

\* the reports the step appended
Appended == SubSeq(reports', Len(reports) + 1, Len(reports'))

\* the reports of one call in the order of its transitions: the matches, in
\* pairs, then at most one report that ends the call
InCallOrder(rs) ==
    \A i \in DOMAIN rs : rs[i].state /= "match" => i = Len(rs)

\* C19 as stated: each call leaves the earlier reports as they are, appends
\* its own in the order of its transitions, and the vector after the call
\* holds the reports of that call only.
C19_ReportsScopedToCall ==
    [][ CallMade
        => /\ EarlierReportsKept
           /\ InCallOrder(Appended)
           /\ reports' = Appended ]_vars

\* C19 amended: each call leaves the earlier reports as they are and appends
\* its own behind them in the order of its transitions; the vector holds
\* the reports of every call since the caller last emptied it.
C19_ReportsAppendOnly ==
    [][ CallMade
        => /\ EarlierReportsKept
           /\ InCallOrder(Appended)
           /\ reports' = reports \o Appended ]_vars

\* the README's example: the placement of the buy order, the two match
\* reports and the placement of the seller's remainder, all in the vector
C19_Witness ==
    /\ IsInsert /\ Returned
    /\ Len(reports) = 4
    /\ reports[1].state = "placement" /\ reports[1].side = "buy"
    /\ reports[2].state = "match" /\ reports[3].state = "match"
    /\ reports[3].identifier = reports[1].identifier
    /\ reports[4].state = "placement" /\ reports[4].side = "sell"

Occupied == { s \in Slots : pool_[s].used }

\* the records in the queues of the ladder
InLadder == UNION { { q[i] : i \in DOMAIN q } : q \in { QueueOf(l) : l \in Levels } }

\* C21: a fully filled resting order releases its slot.  No occupied slot
\* holds a record of quantity 0, and the occupied slots are exactly the
\* records in the queues of the ladder.
C21_FilledOrderReleasesSlot ==
    /\ \A s \in Occupied : pool_[s].quantity > 0
    /\ Occupied = InLadder

\* C22: no reference to a freed slot is retained.  When cancel(handle) has
\* returned, no level has the slot as its head or as its tail, and no record
\* in an occupied slot has it as successor.
C22_NoReferenceToFreedSlot ==
    (call.op = "cancel" /\ Returned)
    => /\ \A l \in Levels : limits_[l].first /= call.handle /\ limits_[l].second /= call.handle
       /\ \A s \in Occupied : pool_[s].successor /= call.handle

\* C23: insert always terminates.  No insert call stays in the loop of
\* match_at_level for ever: every call ends, having emitted finitely many
\* reports.
C23_InsertTerminates == outcome /= "diverged"

\* C24: the best-quote cursors stay inside the ladder.  best_bid_ and
\* best_ask_ each designate a position p with 0 <= p < ladder length.
C24_CursorsInsideLadder ==
    /\ 0 <= best_bid_ /\ best_bid_ < ladder_size
    /\ 0 <= best_ask_ /\ best_ask_ < ladder_size

\* the level l held records before the step and the match reports of the
\* step take the whole quantity of each of them
DrainedInStep(l) ==
    /\ l \in Levels
    /\ QueueOf(l) /= << >>
    /\ \A i \in DOMAIN QueueOf(l) :
         MatchedAgainst(reports', QueueOf(l)[i]) = pool_[QueueOf(l)[i]].quantity
    /\ \E i \in DOMAIN reports' :
         reports'[i].state = "match" /\ reports'[i].limit = default_decode(l)

\* the step has placed an order of this side at the level l
PlacedInStep(side, l) ==
    /\ call'.op = "insert"
    /\ reports' /= << >>
    /\ Last(reports').state = "placement"
    /\ Last(reports').side = side
    /\ InInterval(Last(reports').limit)
    /\ default_encode(Last(reports').limit) = l

\* C25: cursor movement.  Across every call, best_bid_ decreases only if the
\* level it designated was drained by the call and best_ask_ increases only
\* if the level it designated was drained by the call; best_bid_ increases
\* only to the level of a buy order the call placed and best_ask_ decreases
\* only to the level of a sell order the call placed.
C25_CursorMovement ==
    [][ /\ best_bid_' < best_bid_ => DrainedInStep(best_bid_)
        /\ best_ask_' > best_ask_ => DrainedInStep(best_ask_)
        /\ best_bid_' > best_bid_ => PlacedInStep("buy", best_bid_')
        /\ best_ask_' < best_ask_ => PlacedInStep("sell", best_ask_')
      ]_vars

\* a sell has drained the best bid level and the cursor has moved down to
\* the next level that holds an order
C25_Witness ==
    /\ IsInsert /\ Returned
    /\ call.order.side = "sell"
    /\ reports /= << >>
    /\ reports[1].state = "match"
    /\ best_bid_ \in Levels
    /\ best_bid_ < default_encode(reports[1].limit)
    /\ limits_[best_bid_].first /= nullptr

\* the limit prices of the orders of this side that rest
RestingPrices(side) == { placed[s].limit : s \in Resting(side) }

\* C26: best price first.  In every insert of a valid order that returns,
\* the fills of a buying aggressor are at non-decreasing prices and begin at
\* the lowest price at which a sell order rested, those of a selling
\* aggressor at non-increasing prices beginning at the highest price at
\* which a buy order rested; and when the order is not filled in full no
\* order of the other side with a price within its limit is left resting.
C26_BestPriceFirst ==
    [][ (CallStep /\ call'.op = "insert" /\ Valid(call'.order) /\ outcome' = "returned")
        => LET ms   == Matches(reports')
               side == call'.order.side
           IN  /\ \A i \in DOMAIN ms : \A j \in DOMAIN ms :
                    i < j => IF side = "buy" THEN ms[i].limit <= ms[j].limit
                                             ELSE ms[i].limit >= ms[j].limit
               /\ ms /= << >> =>
                    /\ ms[1].limit \in RestingPrices(opposite(side))
                    /\ \A p \in RestingPrices(opposite(side)) :
                         IF side = "buy" THEN ms[1].limit <= p ELSE ms[1].limit >= p
               /\ LeavesRemainder => LeftWithinLimit' = {}
      ]_vars

\* C27: execution at the resting price.  In the reports of an insert, the
\* aggressor's match report and the resting order's match report that
\* follows it carry the same quote, which is the limit in the placement
\* report of the resting order: the order that held, when the call began,
\* the handle the second report carries.
C27_ExecutionAtRestingPrice ==
    [][ (CallStep /\ call'.op = "insert")
        => \A i \in DOMAIN reports' :
             (reports'[i].state = "match" /\ reports'[i].identifier \in Slots)
             => /\ reports'[i].limit = placed[reports'[i].identifier].limit
                /\ i > 1
                /\ reports'[i - 1].limit = reports'[i].limit
      ]_vars

\* a sell has been filled at the price of a resting buy order above its
\* own limit
C27_Witness ==
    /\ IsInsert /\ Returned
    /\ call.order.side = "sell"
    /\ Len(reports) >= 2
    /\ reports[1].state = "match" /\ reports[2].state = "match"
    /\ reports[2].identifier \in Slots
    /\ placed[reports[2].identifier].side = "buy"
    /\ reports[1].limit = placed[reports[2].identifier].limit
    /\ reports[1].limit > call.order.limit

\* the states a report that ends the reports of an insert may have
Terminal == {"invalid", "cancel", "placement"}

\* C28: shape of the reports of one insert.  Every insert emits at least one
\* report; its reports are match reports, in pairs, followed by at most one
\* terminal report (invalid, cancel or placement); every match quantity is
\* > 0; the terminal report is absent exactly when the order is valid and the
\* aggressor's match quantities add up to its quantity, and otherwise its
\* quantity is the order's quantity less that sum.
C28_ReportShape ==
    [][ (CallStep /\ call'.op = "insert")
        => LET rs    == reports'
               order == call'.order
               ended == rs /= << >> /\ Last(rs).state \in Terminal
           IN  /\ rs /= << >>
               /\ \A i \in DOMAIN rs : rs[i].state \in Terminal => i = Len(rs)
               /\ \A i \in DOMAIN rs : rs[i].state \in Terminal \cup {"match"}
               /\ Len(Matches(rs)) % 2 = 0
               /\ \A i \in DOMAIN rs : rs[i].state = "match" => rs[i].quantity > 0
               /\ ~ended <=> (Valid(order) /\ Filled(rs) = order.quantity)
               /\ ended => Last(rs).quantity = order.quantity - Filled(rs)
      ]_vars

\* the same for the inserts that return
C28_ReportShapeOnReturn ==
    [][ (CallStep /\ call'.op = "insert" /\ outcome' = "returned")
        => LET rs    == reports'
               order == call'.order
               ended == rs /= << >> /\ Last(rs).state \in Terminal
           IN  /\ rs /= << >>
               /\ \A i \in DOMAIN rs : rs[i].state \in Terminal => i = Len(rs)
               /\ \A i \in DOMAIN rs : rs[i].state = "match" => rs[i].quantity > 0
               /\ ~ended <=> (Valid(order) /\ Filled(rs) = order.quantity)
               /\ ended => Last(rs).quantity = order.quantity - Filled(rs)
      ]_vars

\* C29: a partial fill keeps the resting order in place.  When the match
\* reports of an insert take less from the order of their last pair than
\* the quantity it had, that order is the head of the level of the fill,
\* with its quantity less what was taken, in its slot, with its owner and
\* its successor; the level's tail is unchanged; the aggressor is filled in
\* full and nothing follows the match reports; and when the call made no
\* other fill the ladder and both cursors are unchanged.
C29_PartialFillKeepsOrder ==
    [][ (CallStep /\ call'.op = "insert" /\ outcome' = "returned"
            /\ Matches(reports') /= << >>)
        => LET ms == Matches(reports')
               s  == Last(ms).identifier
           IN  (s \in Slots /\ MatchedAgainst(reports', s) < pool_[s].quantity)
               => /\ pool_'[s] = [pool_[s] EXCEPT
                                    !.quantity = @ - MatchedAgainst(reports', s)]
                  /\ Filled(reports') = call'.order.quantity
                  /\ reports' = ms
                  /\ free_' = free_
                  /\ \A l \in Levels :
                       l = default_encode(Last(ms).limit)
                       => /\ limits_'[l].first = s
                          /\ limits_'[l].second = limits_[l].second
                  /\ Len(ms) = 2
                       => /\ limits_' = limits_
                          /\ best_bid_' = best_bid_
                          /\ best_ask_' = best_ask_
      ]_vars

\* a sell has taken a part of the buy order at the head of a level
C29_Witness ==
    /\ IsInsert /\ Returned
    /\ call.order.side = "sell"
    /\ Len(reports) = 2
    /\ reports[2].state = "match"
    /\ reports[2].identifier \in Slots
    /\ pool_[reports[2].identifier].quantity > 0
    /\ placed[reports[2].identifier].side = "buy"
    /\ \E l \in Levels : limits_[l].first = reports[2].identifier

\* the records of the sequence q as a set
Range(q) == { q[i] : i \in DOMAIN q }

\* C30: level queue well-formedness.  For every level the head is empty iff
\* the tail is empty; when they are not, the successor links lead from the
\* head to the tail without passing a record twice, the tail has no
\* successor, and every record of the queue holds a quantity > 0; and no
\* record is in the queues of two levels.
C30_QueuesWellFormed ==
    /\ \A l \in Levels :
         /\ (limits_[l].first = nullptr) <=> (limits_[l].second = nullptr)
         /\ limits_[l].first /= nullptr =>
              LET q == QueueOf(l)
              IN  /\ Cardinality(Range(q)) = Len(q)
                  /\ Last(q) = limits_[l].second
                  /\ pool_[limits_[l].second].successor = nullptr
                  /\ \A i \in DOMAIN q : pool_[q[i]].quantity > 0
    /\ \A l1 \in Levels : \A l2 \in Levels :
         l1 /= l2 => Range(QueueOf(l1)) \cap Range(QueueOf(l2)) = {}

\* a level holds two orders, the first of them filled in part
C30_Witness ==
    \E l \in Levels :
        /\ Len(QueueOf(l)) = 2
        /\ pool_[QueueOf(l)[1]].quantity < placed[QueueOf(l)[1]].quantity
        /\ pool_[QueueOf(l)[1]].quantity > 0

\* C31: matching is only against the opposite side.  In every insert, each
\* match report that carries a handle fills an order that rested, when the
\* call began, on the side opposite to the incoming order's: a sell is
\* matched only against resting buys, a buy only against resting sells.
C31_OppositeSideOnly ==
    [][ (CallStep /\ call'.op = "insert")
        => \A i \in DOMAIN reports' :
             (reports'[i].state = "match" /\ reports'[i].identifier \in Slots)
             => reports'[i].identifier \in Resting(opposite(call'.order.side))
      ]_vars

\* C32: no executable pair remains.  After an insert has returned, the price
\* of every resting buy order is strictly below the price of every resting
\* sell order, and no level holds resting orders of both sides.
C32_NoExecutablePair ==
    (IsInsert /\ Returned)
    => /\ \A b \in Resting("buy") : \A s \in Resting("sell") :
            placed[b].limit < placed[s].limit
       /\ \A l \in Levels :
            ~ \E b \in Range(QueueOf(l)) \cap Resting("buy") :
                \E s \in Range(QueueOf(l)) \cap Resting("sell") : TRUE

\* the orders that rest at the price q
RestingAt(q) ==
    { s \in Slots : pool_[s].used /\ pool_[s].quantity > 0 /\ placed[s].limit = q }

\* C33: a cancelled order is never matched.  No insert emits a match report
\* with the handle of an order that was cancelled before the call and whose
\* handle was not issued again; and once cancel(handle) of an order has
\* returned, bid() and ask() return that order's price only if another order
\* rests at it.
C33_CancelledNeverMatched ==
    [][ /\ (CallStep /\ call'.op = "insert")
           => \A i \in DOMAIN reports' :
                (reports'[i].state = "match" /\ reports'[i].identifier \in Slots)
                => ~CancelledBefore(reports'[i].identifier)
        /\ (CancelStep /\ pool_[call'.handle].used /\ outcome' = "returned")
           => /\ \A g \in GarbageAt(best_bid_)' : \A b \in bid(g)' :
                   b = placed[call'.handle].limit => RestingAt(b)' /= {}
              /\ \A g \in GarbageAt(best_ask_)' : \A a \in ask(g)' :
                   a = placed[call'.handle].limit => RestingAt(a)' /= {}
      ]_vars

\* the orders that rest, of either side
RestingOrders == { s \in Slots : pool_[s].used /\ pool_[s].quantity > 0 }

\* C34: report identifiers correlate fills with orders.  In the reports of
\* an insert, every invalid and every cancel report and the first report of
\* each match pair (the aggressor's) carry no handle; the second report of
\* each match pair carries a handle that a placement report gave out, that of
\* a record in the queue of the level of the report's price, and the pair's
\* quantity is taken from that record; and the handle of a placement report
\* is the handle of no order that rests, so no two resting orders share one.
C34_IdentifiersCorrelate ==
    [][ (CallStep /\ call'.op = "insert")
        => LET ms == Matches(reports')
           IN  /\ \A i \in DOMAIN reports' :
                    reports'[i].state \in {"invalid", "cancel"}
                    => reports'[i].identifier = no_handle
               /\ \A i \in DOMAIN ms :
                    IF i % 2 = 1
                    THEN ms[i].identifier = no_handle
                    ELSE LET h == ms[i].identifier
                         IN  /\ h \in Slots
                             /\ placed[h].seq > 0
                             /\ InInterval(ms[i].limit)
                             /\ \A l \in Levels :
                                  l = default_encode(ms[i].limit)
                                  => h \in Range(QueueOf(l))
                             /\ MatchedAgainst(reports', h) <= pool_[h].quantity
               /\ \A i \in DOMAIN reports' :
                    reports'[i].state = "placement"
                    => /\ reports'[i].identifier \in Slots
                       /\ reports'[i].identifier \notin RestingOrders
                       /\ reports'[i].identifier \in RestingOrders'
      ]_vars

\* an insert was filled in part against a resting order and its remainder
\* placed under a handle of its own
C34_Witness ==
    /\ IsInsert /\ Returned
    /\ Len(reports) = 3
    /\ reports[1].state = "match" /\ reports[1].identifier = no_handle
    /\ reports[2].state = "match" /\ reports[2].identifier \in Slots
    /\ reports[3].state = "placement" /\ reports[3].identifier \in Slots
    /\ reports[3].identifier /= reports[2].identifier

\* a call of compute_clearing_quotes has been made
Computed == clearing.outcome /= "none"

\* C35: compute_clearing_quotes fails with invalid_parameters exactly when no
\* method is configured.  Otherwise the methods it has tried are the
\* configured ones in their order; when it returns quotes they are those of
\* the method tried last, which converged while none tried before it did;
\* when it returns no value, every configured method was tried and none
\* converged.
C35_FirstConvergingMethod ==
    Computed =>
      /\ (clearing.outcome = "invalid_parameters") <=> (methods = << >>)
      /\ clearing.outcome \in {"invalid_parameters", "quotes", "nullopt"}
      /\ Len(clearing.tried) <= Len(methods)
      /\ \A i \in DOMAIN clearing.tried : clearing.tried[i].method = methods[i]
      /\ clearing.outcome = "quotes" =>
           /\ clearing.by = Len(clearing.tried)
           /\ clearing.by >= 1
           /\ clearing.tried[clearing.by].status = "GSL_SUCCESS"
           /\ \A i \in 1..(clearing.by - 1) : clearing.tried[i].status /= "GSL_SUCCESS"
      /\ clearing.outcome = "nullopt" =>
           /\ Len(clearing.tried) = Len(methods)
           /\ \A i \in DOMAIN clearing.tried : clearing.tried[i].status /= "GSL_SUCCESS"

\* the first method did not converge and the quotes are those of the second
C35_Witness ==
    /\ clearing.outcome = "quotes"
    /\ clearing.by = 2
    /\ Len(methods) = 3
    /\ clearing.tried[1].status = "GSL_CONTINUE"

\* C36: the solver's error handler is restored.  When a call of
\* compute_clearing_quotes has returned, with quotes or with no value, the
\* error handler installed is the one that was installed when the call
\* began.
C36_HandlerRestored ==
    clearing.outcome \in {"quotes", "nullopt"}
    => gsl_error_handler = clearing.old_handler

\* a call of get is made in this step
GetStep == got' /= got

\* C37: a parametrization stores each constructor argument under its own
\* name.  get("threads") with the type of the threads argument returns the
\* threads argument and get("verbosity") with the type of the verbosity
\* argument the verbosity argument; get of a name that is absent, or with a
\* type other than the one stored, fails with out_of_range; and no get
\* changes the parametrization.
C37_ArgumentsUnderOwnName ==
    [][ GetStep
        => /\ (got'.name = "threads" /\ got'.type = "unsigned int")
              => (got'.outcome = "returned" /\ got'.choice = arguments.threads)
           /\ (got'.name = "verbosity" /\ got'.type = "uint64_t")
              => (got'.outcome = "returned" /\ got'.choice = arguments.verbosity)
           /\ (values[got'.name] = absent \/ values[got'.name].type /= got'.type)
              => got'.outcome = "out_of_range"
           /\ values' = values
      ]_vars

====
